---- MODULE Spec2Model ----
(***************************************************************************)
(* Model of twm (src/src/main.rs): a Telegram bot that relays authorised   *)
(* text to a completion API.  One task per inbound message runs            *)
(* handle_command or handle_free_text; all tasks share one                 *)
(* Arc<Mutex<WhiteList>> whose content is written through to               *)
(* whitelist.json.                                                         *)
(***************************************************************************)
EXTENDS Naturals, Sequences, FiniteSets, TLC

VARIABLES users, file, lock, task, phase, env

vars == <<users, file, lock, task, phase, env>>

(* ------------------------------ bounds --------------------------------- *)

\* concurrent handler tasks of the dispatcher
NumHandlers == 2
\* concurrent AddUser handlers of the no-lost-update scenario
NumAdders == 3
\* handler tasks of the startup specification
NumStartHandlers == 1
\* concurrent handlers of the termination scenario
NumLive == 2

(* ----------------------------- identities ------------------------------ *)

\* main.rs:106  matches!(username.as_deref(), Some("ksander314"))
Admin == "ksander314"

\* identities that occur as senders and as /adduser, /removeuser arguments
Names == {Admin, "bob"}
ArgNames == {"bob"}

\* Option<String>: None is <<>>, Some(u) is <<u>>
None == <<>>
Some(u) == <<u>>
Usernames == {None} \cup {Some(u) : u \in Names}

\* the distinct identities of the concurrent-add scenario
AdderName(h) == <<"u1", "u2", "u3", "u4", "u5", "u6">>[h]
AdderNames == {AdderName(h) : h \in 1..NumAdders}

(* ------------------------------ WhiteList ------------------------------ *)

\* whitelist.json: absent, well-formed {"users": [...]}, or not parseable
AbsentFile == [state |-> "absent", users |-> {}]
MalformedFile == [state |-> "malformed", users |-> {}]
OkFile(s) == [state |-> "ok", users |-> s]
\* the record exists but File::open fails on it
UnreadableFile == [state |-> "unreadable", users |-> {}]

\* variant: load ignores the content of the record
LoadEmpty(f) == {}

\* WhiteList::load: missing file and unparseable content give the default
Load(f) == IF f.state = "ok" THEN f.users ELSE {}

\* variant: the membership test always answers yes
IsAllowedAlways(s, u) == TRUE

\* variant: the membership test always answers no
IsAllowedNever(s, u) == FALSE

\* WhiteList::is_allowed
IsAllowed(s, u) == u \in s

\* variant: save reports success without writing the record
SaveFileNoWrite(f, s, o) == f

\* WhiteList::save: File::create may fail (record untouched), write_all may
\* fail after create truncated the record; both are .expect(), a panic
SaveOutcomes == {"ok", "create_failed", "write_failed"}
SaveFile(f, s, o) ==
    CASE o = "ok" -> OkFile(s)
      [] o = "create_failed" -> f
      [] o = "write_failed" -> MalformedFile

(* ------------------------------ messages ------------------------------- *)

\* the bot's own username (Me), which filter_command parses against
MeName == "twm_bot"
\* main.rs:77  Command::parse(text, "YourBotName")
FilterName == "YourBotName"

Keywords == {"ask", "adduser", "removeuser", "listusers", "help"}
Mentions == {"", MeName, FilterName}

\* msg.text(): None, or Some(text); a text is plain, or "/kw[@mention] arg"
PlainText == [sigil |-> FALSE, kw |-> "", mention |-> "", arg |-> ""]
CommandTexts ==
    {[sigil |-> TRUE, kw |-> k, mention |-> "", arg |-> ""] :
        k \in {"ask", "listusers", "help", "foo"}}
    \cup
    {[sigil |-> TRUE, kw |-> k, mention |-> "", arg |-> a] :
        k \in {"adduser", "removeuser"}, a \in ArgNames}
    \cup
    {[sigil |-> TRUE, kw |-> "ask", mention |-> m, arg |-> ""] :
        m \in Mentions}
Texts == {None} \cup {Some(t) : t \in {PlainText} \cup CommandTexts}

\* Command::parse(text, bot_name) of #[derive(BotCommands)]: Ok(cmd) as
\* <<cmd>>, Err as <<>>
NoCmd == [kind |-> "none", arg |-> ""]
Parse(t, botName) ==
    IF ~t.sigil THEN <<>>
    ELSE IF t.mention # "" /\ t.mention # botName THEN <<>>
    ELSE IF t.kw \notin Keywords THEN <<>>
    ELSE <<[kind |-> t.kw, arg |-> t.arg]>>

\* main.rs:76  msg.text().unwrap_or("")
TextOrEmpty(text) == IF text = None THEN PlainText ELSE text[1]

\* the dptree of main: the command branch, then the free-text branch, else
\* the update is left unhandled
Route(text) ==
    IF text # None /\ Parse(text[1], MeName) # <<>> THEN "command"
    ELSE IF Parse(TextOrEmpty(text), FilterName) = <<>> THEN "free_text"
    ELSE "unhandled"

(* ------------------------------- tasks --------------------------------- *)

\* a handler slot with no message
IdleTask ==
    [pc |-> "idle", handler |-> "none", username |-> None, cmd |-> NoCmd,
     has_text |-> FALSE, is_allowed |-> FALSE, reply |-> "none",
     replies |-> 0, asked |-> 0, cause |-> "none"]

\* handle_command:106
IsAdmin(username) == username = Some(Admin)

\* variant: the admin arms are guarded by is_allowed instead of is_admin
MatchCmdByAllowed(t, allowed) ==
    LET a == [t EXCEPT !.is_allowed = allowed] IN
    CASE t.cmd.kind \in {"removeuser", "adduser", "listusers"} /\ allowed ->
            [a EXCEPT !.pc = "lock_wait"]
      [] t.cmd.kind = "ask" /\ allowed ->
            [a EXCEPT !.pc = "ask"]
      [] t.cmd.kind = "help" ->
            [a EXCEPT !.pc = "send", !.reply = "help"]
      [] OTHER ->
            [a EXCEPT !.pc = "send", !.reply = "denied"]

\* variant: the Help arm is guarded by is_allowed
MatchCmdHelpGuarded(t, allowed) ==
    LET a == [t EXCEPT !.is_allowed = allowed] IN
    CASE t.cmd.kind \in {"removeuser", "adduser", "listusers"}
            /\ IsAdmin(t.username) ->
            [a EXCEPT !.pc = "lock_wait"]
      [] t.cmd.kind = "ask" /\ allowed ->
            [a EXCEPT !.pc = "ask"]
      [] t.cmd.kind = "help" /\ allowed ->
            [a EXCEPT !.pc = "send", !.reply = "help"]
      [] OTHER ->
            [a EXCEPT !.pc = "send", !.reply = "denied"]

\* handle_command:115-155, the match on cmd once is_allowed is known: the
\* admin arms take the lock, Ask calls ask_gpt, the others send a reply
MatchCmd(t, allowed) ==
    LET a == [t EXCEPT !.is_allowed = allowed] IN
    CASE t.cmd.kind \in {"removeuser", "adduser", "listusers"}
            /\ IsAdmin(t.username) ->
            [a EXCEPT !.pc = "lock_wait"]
      [] t.cmd.kind = "ask" /\ allowed ->
            [a EXCEPT !.pc = "ask"]
      [] t.cmd.kind = "help" ->
            [a EXCEPT !.pc = "send", !.reply = "help"]
      [] OTHER ->
            [a EXCEPT !.pc = "send", !.reply = "denied"]

\* handle_free_text:172-183
FreeText(t, allowed) ==
    LET a == [t EXCEPT !.is_allowed = allowed] IN
    IF ~allowed THEN [a EXCEPT !.pc = "send", !.reply = "denied"]
    ELSE IF t.has_text THEN [a EXCEPT !.pc = "ask"]
    ELSE [a EXCEPT !.pc = "done"]

\* what follows the computation of is_allowed in either handler
AfterAuth(t, allowed) ==
    IF t.handler = "command" THEN MatchCmd(t, allowed) ELSE FreeText(t, allowed)

\* handle_command:104-113, handle_free_text:164-170: a sender with a
\* username queues for the lock, an anonymous one has is_allowed = false
StartTask(t) ==
    IF t.username = None THEN AfterAuth(t, FALSE)
    ELSE [t EXCEPT !.pc = "auth_wait"]

\* the task the dispatcher creates for an update
NewTask(username, text) ==
    LET r == Route(text) IN
    CASE r = "command" ->
            StartTask([IdleTask EXCEPT !.handler = "command",
                                       !.username = username,
                                       !.cmd = Parse(text[1], MeName)[1],
                                       !.has_text = TRUE])
      [] r = "free_text" ->
            StartTask([IdleTask EXCEPT !.handler = "free_text",
                                       !.username = username,
                                       !.has_text = (text # None)])
      [] OTHER ->
            [IdleTask EXCEPT !.pc = "done", !.username = username,
                             !.has_text = TRUE]

Finished(t) == t.pc \in {"idle", "done", "panicked"}

\* the tasks that the updates of the transport give rise to
NewTasks == {NewTask(username, text) : username \in Usernames, text \in Texts}

(* ------------------------------ actions -------------------------------- *)

\* Dispatcher: an update arrives and is routed to a handler task
Receive(h) ==
    /\ phase = "running"
    /\ Finished(task[h])
    /\ \E t \in NewTasks : task' = [task EXCEPT ![h] = t]
    /\ UNCHANGED <<users, file, lock, phase, env>>

\* whitelist.lock().await of the authorization check (109, 166)
AuthLock(h) ==
    /\ task[h].pc = "auth_wait"
    /\ lock = 0
    /\ lock' = h
    /\ task' = [task EXCEPT ![h].pc = "auth_held"]
    /\ UNCHANGED <<users, file, phase, env>>

\* variant: the guard of the authorization check is kept
AuthCheckKeepsGuard(h) ==
    /\ task[h].pc = "auth_held"
    /\ lock' = lock
    /\ task' = [task EXCEPT
                  ![h] = AfterAuth(task[h], IsAllowed(users, task[h].username[1]))]
    /\ UNCHANGED <<users, file, phase, env>>

\* wl.is_allowed(u); the guard drops at the end of the block
AuthCheck(h) ==
    /\ task[h].pc = "auth_held"
    /\ lock' = 0
    /\ task' = [task EXCEPT
                  ![h] = AfterAuth(task[h], IsAllowed(users, task[h].username[1]))]
    /\ UNCHANGED <<users, file, phase, env>>

\* variant: the admin arm goes on without waiting for the lock
CmdLockNoWait(h) ==
    /\ task[h].pc = "lock_wait"
    /\ lock' = h
    /\ task' = [task EXCEPT ![h].pc = "locked"]
    /\ UNCHANGED <<users, file, phase, env>>

\* whitelist.lock().await of an admin arm (117, 127, 137)
CmdLock(h) ==
    /\ task[h].pc = "lock_wait"
    /\ lock = 0
    /\ lock' = h
    /\ task' = [task EXCEPT ![h].pc = "locked"]
    /\ UNCHANGED <<users, file, phase, env>>

\* variant: add_user saves whether or not the insert changed the set
AddUserAlwaysSaves(h) ==
    /\ task[h].pc = "locked"
    /\ task[h].cmd.kind = "adduser"
    /\ users' = users \cup {task[h].cmd.arg}
    /\ task' = [task EXCEPT ![h].pc = "saving"]
    /\ UNCHANGED <<file, lock, phase, env>>

\* WhiteList::add_user:251  self.users.insert(username)
AddUser(h) ==
    /\ task[h].pc = "locked"
    /\ task[h].cmd.kind = "adduser"
    /\ users' = users \cup {task[h].cmd.arg}
    /\ task' = [task EXCEPT ![h] =
                  IF task[h].cmd.arg \notin users
                  THEN [@ EXCEPT !.pc = "saving"]
                  ELSE [@ EXCEPT !.pc = "send", !.reply = "already"]]
    /\ UNCHANGED <<file, lock, phase, env>>

\* variant: remove_user empties the set
RemoveUserClears(h) ==
    /\ task[h].pc = "locked"
    /\ task[h].cmd.kind = "removeuser"
    /\ users' = {}
    /\ task' = [task EXCEPT ![h] =
                  IF task[h].cmd.arg \in users
                  THEN [@ EXCEPT !.pc = "saving"]
                  ELSE [@ EXCEPT !.pc = "send", !.reply = "not_in"]]
    /\ UNCHANGED <<file, lock, phase, env>>

\* WhiteList::remove_user:243  self.users.remove(username)
RemoveUser(h) ==
    /\ task[h].pc = "locked"
    /\ task[h].cmd.kind = "removeuser"
    /\ users' = users \ {task[h].cmd.arg}
    /\ task' = [task EXCEPT ![h] =
                  IF task[h].cmd.arg \in users
                  THEN [@ EXCEPT !.pc = "saving"]
                  ELSE [@ EXCEPT !.pc = "send", !.reply = "not_in"]]
    /\ UNCHANGED <<file, lock, phase, env>>

\* the reply of a mutation whose save returned
Confirmation(kind) == IF kind = "adduser" THEN "added" ELSE "removed"

\* WhiteList::save, called by add_user/remove_user when the set changed; a
\* failed create or write panics, and the unwinding drops the guard
Save(h) ==
    /\ task[h].pc = "saving"
    /\ \E o \in SaveOutcomes :
          /\ file' = SaveFile(file, users, o)
          /\ IF o = "ok"
             THEN /\ task' = [task EXCEPT ![h].pc = "send",
                                  ![h].reply = Confirmation(task[h].cmd.kind)]
                  /\ lock' = lock
             ELSE /\ task' = [task EXCEPT ![h].pc = "panicked",
                                          ![h].cause = "store_write"]
                  /\ lock' = 0
    /\ UNCHANGED <<users, phase, env>>

\* handle_command:137-138  wl.list()
ListUsers(h) ==
    /\ task[h].pc = "locked"
    /\ task[h].cmd.kind = "listusers"
    /\ task' = [task EXCEPT ![h].pc = "send", ![h].reply = "list"]
    /\ UNCHANGED <<users, file, lock, phase, env>>

\* what the completion endpoint may answer: no answer at all (transport
\* failure), or a status with a body; an error status carries an error
\* object, which is no ChatResponse
Responses ==
    {[transport |-> FALSE, status |-> 0, body |-> "none"]}
    \cup {[transport |-> TRUE, status |-> 200, body |-> b] :
            b \in {"choices", "no_choices", "malformed"}}
    \cup {[transport |-> TRUE, status |-> 500, body |-> "malformed"]}

\* a response that is a failure of the completion call
IsFailure(r) == ~r.transport \/ r.status # 200 \/ r.body # "choices"

\* ask_gpt:199-208: send()? and json()? return Err, choices[0] of an
\* empty vector panics; the status is not looked at
AskGptResult(r) ==
    CASE ~r.transport -> "err"
      [] r.body = "malformed" -> "err"
      [] r.body = "no_choices" -> "panic"
      [] OTHER -> "ok"

\* ask_gpt(..).await.unwrap_or("Error contacting OpenAI.")  (143-145, 178-180);
\* ask_gpt:187 reads TWM_OPENAI_API_KEY first and panics without it
AskGpt(h) ==
    /\ task[h].pc = "ask"
    /\ IF ~env.api_key
       THEN task' = [task EXCEPT ![h].pc = "panicked", ![h].cause = "config"]
       ELSE \E r \in Responses :
          LET res == AskGptResult(r)
              c == IF IsFailure(r) THEN "completion" ELSE "none" IN
          task' = [task EXCEPT ![h] =
                     CASE res = "ok" ->
                            [@ EXCEPT !.pc = "send", !.reply = "gpt_text",
                                      !.asked = 1, !.cause = c]
                       [] res = "err" ->
                            [@ EXCEPT !.pc = "send", !.reply = "gpt_error",
                                      !.asked = 1, !.cause = c]
                       [] OTHER ->
                            [@ EXCEPT !.pc = "panicked", !.asked = 1,
                                      !.cause = c]]
    /\ UNCHANGED <<users, file, lock, phase, env>>

\* variant: the guard of an admin arm outlives the handler
SendKeepsGuard(h) ==
    /\ task[h].pc = "send"
    /\ \E ok \in BOOLEAN :
          task' = [task EXCEPT ![h].pc = "done",
                               ![h].replies = @ + 1,
                               ![h].cause = IF ok THEN @ ELSE "send"]
    /\ UNCHANGED <<users, file, lock, phase, env>>

\* bot.send_message(..).await? and the return of the handler, which drops
\* a guard that is still alive; a failed send returns the Err
Send(h) ==
    /\ task[h].pc = "send"
    /\ \E ok \in BOOLEAN :
          task' = [task EXCEPT ![h].pc = "done",
                               ![h].replies = @ + 1,
                               ![h].cause = IF ok THEN @ ELSE "send"]
    /\ lock' = IF lock = h THEN 0 ELSE lock
    /\ UNCHANGED <<users, file, phase, env>>

(* --------------------------- specifications ---------------------------- *)

Handlers == DOMAIN task

\* the durable records the process may find at startup
InitFiles == {AbsentFile, MalformedFile} \cup {OkFile(s) : s \in SUBSET Names}

\* main:61  Arc::new(Mutex::new(WhiteList::load()))
\* the credentials of the environment: TELOXIDE_TOKEN, TWM_OPENAI_API_KEY
AllSet == [token |-> TRUE, api_key |-> TRUE]
Envs == [token : BOOLEAN, api_key : BOOLEAN]

\* the dispatcher is running: main has passed lines 58-62
Init ==
    /\ file \in InitFiles
    /\ users = Load(file)
    /\ lock = 0
    /\ task = [h \in 1..NumHandlers |-> IdleTask]
    /\ phase = "running"
    /\ env = AllSet

Next ==
    \/ \E h \in Handlers : Receive(h)
    \/ \E h \in Handlers : AuthLock(h)
    \/ \E h \in Handlers : AuthCheck(h)
    \/ \E h \in Handlers : CmdLock(h)
    \/ \E h \in Handlers : AddUser(h)
    \/ \E h \in Handlers : RemoveUser(h)
    \/ \E h \in Handlers : Save(h)
    \/ \E h \in Handlers : ListUsers(h)
    \/ \E h \in Handlers : AskGpt(h)
    \/ \E h \in Handlers : Send(h)

Spec == Init /\ [][Next]_vars

\* N concurrent /adduser of N distinct identities, all sent by the
\* administrator, against an empty store
AdderTask(h) ==
    NewTask(Some(Admin),
            Some([sigil |-> TRUE, kw |-> "adduser", mention |-> "",
                  arg |-> AdderName(h)]))

InitAdd ==
    /\ file \in {AbsentFile, MalformedFile, OkFile({})}
    /\ users = Load(file)
    /\ lock = 0
    /\ task = [h \in 1..NumAdders |-> AdderTask(h)]
    /\ phase = "running"
    /\ env = AllSet

NextAdd ==
    \/ \E h \in Handlers : AuthLock(h)
    \/ \E h \in Handlers : AuthCheck(h)
    \/ \E h \in Handlers : CmdLock(h)
    \/ \E h \in Handlers : AddUser(h)
    \/ \E h \in Handlers : Save(h)
    \/ \E h \in Handlers : Send(h)

SpecAdd == InitAdd /\ [][NextAdd]_vars

\* the process from its start: main:59 Bot::from_env() panics without the
\* token, main:61 WhiteList::load() panics when the record cannot be opened
Main ==
    /\ phase = "boot"
    /\ IF ~env.token \/ file.state = "unreadable"
       THEN phase' = "aborted" /\ users' = users
       ELSE phase' = "running" /\ users' = Load(file)
    /\ UNCHANGED <<file, lock, task, env>>

InitStart ==
    /\ file \in InitFiles \cup {UnreadableFile}
    /\ users = {}
    /\ lock = 0
    /\ task = [h \in 1..NumStartHandlers |-> IdleTask]
    /\ phase = "boot"
    /\ env \in Envs

NextStart ==
    \/ Main
    \/ \E h \in Handlers : Receive(h)
    \/ \E h \in Handlers : AuthLock(h)
    \/ \E h \in Handlers : AuthCheck(h)
    \/ \E h \in Handlers : CmdLock(h)
    \/ \E h \in Handlers : AddUser(h)
    \/ \E h \in Handlers : RemoveUser(h)
    \/ \E h \in Handlers : Save(h)
    \/ \E h \in Handlers : ListUsers(h)
    \/ \E h \in Handlers : AskGpt(h)
    \/ \E h \in Handlers : Send(h)

SpecStart == InitStart /\ [][NextStart]_vars

\* add(x) then remove(x): the administrator sends /adduser x and, when its
\* handler has ended, /removeuser x; the task remembers the store as it
\* was before the add
SymTask(kind, x, u, f) ==
    NewTask(Some(Admin),
            Some([sigil |-> TRUE, kw |-> kind, mention |-> "", arg |-> x]))
    @@ [before |-> [users |-> u, file |-> f]]

ThenRemove(h) ==
    /\ task[h].pc \in {"done", "panicked"}
    /\ task[h].cmd.kind = "adduser"
    /\ task' = [task EXCEPT ![h] =
                  SymTask("removeuser", task[h].cmd.arg,
                          task[h].before.users, task[h].before.file)]
    /\ UNCHANGED <<users, file, lock, phase, env>>

InitSym ==
    /\ file \in InitFiles
    /\ users = Load(file)
    /\ lock = 0
    /\ \E x \in Names : task = [h \in {1} |-> SymTask("adduser", x, users, file)]
    /\ phase = "running"
    /\ env = AllSet

NextSym ==
    \/ \E h \in Handlers : AuthLock(h)
    \/ \E h \in Handlers : AuthCheck(h)
    \/ \E h \in Handlers : CmdLock(h)
    \/ \E h \in Handlers : AddUser(h)
    \/ \E h \in Handlers : RemoveUser(h)
    \/ \E h \in Handlers : Save(h)
    \/ \E h \in Handlers : Send(h)
    \/ \E h \in Handlers : ThenRemove(h)

SpecSym == InitSym /\ [][NextSym]_vars

\* the administrator's commands on bob are handled by task 1, one after the
\* other, bob's Ask and free-text messages by task 2, concurrently with them;
\* task 1 carries in "last" the standing confirmation at its start, task 2
\* in "since" the confirmation standing at its start with no command of the
\* administrator in progress
Confirmed(t) == t.reply \in {"added", "removed"}

\* the mutation of bob that task 1 has confirmed to the administrator and
\* that no later command of task 1 has undone: "added", "removed", "none"
Standing(t) ==
    IF t.pc = "idle" THEN "none"
    ELSE IF t.pc \in {"auth_wait", "auth_held", "lock_wait", "locked"}
         THEN t.last
    ELSE IF t.pc \in {"send", "done"} /\ t.reply \in {"already", "not_in"}
         THEN t.last
    ELSE IF t.pc = "done" /\ Confirmed(t) /\ t.cause # "send" THEN t.reply
    ELSE "none"

ReceiveAdmin ==
    /\ Finished(task[1])
    /\ \E kind \in {"adduser", "removeuser"} :
          task' = [task EXCEPT ![1] =
                     NewTask(Some(Admin),
                             Some([sigil |-> TRUE, kw |-> kind, mention |-> "",
                                   arg |-> "bob"]))
                     @@ [last |-> Standing(task[1])]]
    /\ UNCHANGED <<users, file, lock, phase, env>>

ReceiveUser ==
    /\ Finished(task[2])
    /\ \E text \in {None, Some(PlainText),
                     Some([sigil |-> TRUE, kw |-> "ask", mention |-> "",
                           arg |-> ""])} :
          task' = [task EXCEPT ![2] =
                     NewTask(Some("bob"), text)
                     @@ [since |-> IF Finished(task[1])
                                   THEN Standing(task[1]) ELSE "none"]]
    /\ UNCHANGED <<users, file, lock, phase, env>>

InitFresh ==
    /\ file \in InitFiles
    /\ users = Load(file)
    /\ lock = 0
    /\ task = [h \in {1, 2} |-> IdleTask]
    /\ phase = "running"
    /\ env = AllSet

NextFresh ==
    \/ ReceiveAdmin
    \/ ReceiveUser
    \/ \E h \in Handlers : AuthLock(h)
    \/ \E h \in Handlers : AuthCheck(h)
    \/ \E h \in Handlers : CmdLock(h)
    \/ \E h \in Handlers : AddUser(h)
    \/ \E h \in Handlers : RemoveUser(h)
    \/ \E h \in Handlers : Save(h)
    \/ \E h \in Handlers : AskGpt(h)
    \/ \E h \in Handlers : Send(h)

SpecFresh == InitFresh /\ [][NextFresh]_vars

\* NumLive handlers run concurrently on the messages that take the lock
\* in every way the code does, and on one that never takes it
LiveTasks ==
    {NewTask(Some(Admin), Some([sigil |-> TRUE, kw |-> kw, mention |-> "",
                                arg |-> "bob"])) :
         kw \in {"adduser", "removeuser"}}
    \cup {NewTask(Some(Admin), Some([sigil |-> TRUE, kw |-> "listusers",
                                     mention |-> "", arg |-> ""])),
          NewTask(Some("bob"), Some([sigil |-> TRUE, kw |-> "ask",
                                     mention |-> "", arg |-> ""])),
          NewTask(Some("bob"), Some(PlainText)),
          NewTask(None, Some([sigil |-> TRUE, kw |-> "help", mention |-> "",
                              arg |-> ""]))}

ReceiveLive(h) ==
    /\ Finished(task[h])
    /\ \E t \in LiveTasks : task' = [task EXCEPT ![h] = t]
    /\ UNCHANGED <<users, file, lock, phase, env>>

InitLive ==
    /\ file \in {AbsentFile, OkFile({"bob"})}
    /\ users = Load(file)
    /\ lock = 0
    /\ task = [h \in 1..NumLive |-> IdleTask]
    /\ phase = "running"
    /\ env = AllSet

NextLive ==
    \/ \E h \in Handlers : ReceiveLive(h)
    \/ \E h \in Handlers : AuthLock(h)
    \/ \E h \in Handlers : AuthCheck(h)
    \/ \E h \in Handlers : CmdLock(h)
    \/ \E h \in Handlers : AddUser(h)
    \/ \E h \in Handlers : RemoveUser(h)
    \/ \E h \in Handlers : Save(h)
    \/ \E h \in Handlers : ListUsers(h)
    \/ \E h \in Handlers : AskGpt(h)
    \/ \E h \in Handlers : Send(h)

\* tokio's Mutex queues its waiters first in, first out: a waiter gets the
\* lock once it has been released often enough
Acquire(h) == AuthLock(h) \/ CmdLock(h)

\* every other step of a handler is a poll of its future, a send or a
\* completion call, all taken to return
Proceed(h) ==
    \/ AuthCheck(h) \/ AddUser(h) \/ RemoveUser(h) \/ Save(h)
    \/ ListUsers(h) \/ AskGpt(h) \/ Send(h)

FairLive ==
    \A h \in 1..NumLive : SF_vars(Acquire(h)) /\ WF_vars(Proceed(h))

SpecLive == InitLive /\ [][NextLive]_vars /\ FairLive

(* ------------------------------- claims -------------------------------- *)

AdminOnly == {"adduser", "removeuser", "listusers"}
IsCommand(t, kinds) == t.handler = "command" /\ t.cmd.kind \in kinds
Decided(t) == t.pc \in {"send", "done"}

\* the 'check absence, insert, persist' window of an add or remove
InCritical(t) == t.pc \in {"locked", "saving"}
AllReturned == \A h \in Handlers : task[h].pc = "done"

\* C1: no lost updates.  Under SpecAdd (N concurrent administrator AddUser
\* of N distinct identities, empty store) no two handlers are inside the
\* check-insert-persist window at once, and once every handler has
\* returned the in-memory set and the durable record hold exactly the N
\* identities.
C1_NoLostUpdates ==
    /\ \A h1 \in Handlers, h2 \in Handlers :
          h1 # h2 => ~(InCritical(task[h1]) /\ InCritical(task[h2]))
    /\ AllReturned => users = AdderNames /\ file = OkFile(AdderNames)

C1_Witness ==
    AllReturned /\ users = AdderNames /\ \A h \in Handlers : task[h].reply = "added"

\* C2: a message of the administrator is never answered with the
\* access-denied reply, whatever the command and whether or not the
\* administrator is in the allow-list.
C2_AdminNeverDenied ==
    \A h \in Handlers : IsAdmin(task[h].username) => task[h].reply # "denied"

\* C3: AddUser, RemoveUser and ListUsers of a sender that is not the
\* administrator never reach the store and are answered with the
\* access-denied reply; the in-memory set and the durable record change
\* only in a step of a handler of an administrator's AddUser or RemoveUser.
C3_Inv ==
    \A h \in Handlers :
        IsCommand(task[h], AdminOnly) /\ ~IsAdmin(task[h].username) =>
            /\ task[h].pc \in {"auth_wait", "auth_held", "send", "done"}
            /\ Decided(task[h]) => task[h].reply = "denied"
            /\ task[h].pc = "done" => task[h].replies = 1

C3_Step ==
    (users' # users \/ file' # file) =>
        \E h \in Handlers :
            /\ IsAdmin(task[h].username)
            /\ IsCommand(task[h], {"adduser", "removeuser"})
            /\ InCritical(task[h])
            /\ task'[h] # task[h]

C3_AdminOnlyCommands == []C3_Inv /\ [][C3_Step]_vars

C3_Witness ==
    \E h \in Handlers :
        /\ IsCommand(task[h], {"listusers"})
        /\ task[h].username = Some("bob")
        /\ task[h].is_allowed
        /\ task[h].pc = "done"
        /\ task[h].reply = "denied"

\* C4: for a sender with an identity that is not the administrator, an Ask
\* command or a free-text message with text calls the completion API iff
\* the identity is in the allow-list when the handler checks it; otherwise
\* the reply is the access-denied text and no completion call is made.
C4_Subject(t) ==
    /\ t.username # None
    /\ ~IsAdmin(t.username)
    /\ IsCommand(t, {"ask"}) \/ (t.handler = "free_text" /\ t.has_text)

C4_Step ==
    \A h \in Handlers :
        C4_Subject(task[h]) /\ task[h].pc = "auth_held"
            /\ task'[h].pc # "auth_held" =>
            IF task[h].username[1] \in users
            THEN task'[h].pc = "ask" /\ task'[h].is_allowed
            ELSE /\ task'[h].pc = "send"
                 /\ task'[h].reply = "denied"
                 /\ ~task'[h].is_allowed

C4_Inv ==
    \A h \in Handlers :
        C4_Subject(task[h]) =>
            /\ task[h].pc = "ask" \/ task[h].asked = 1 => task[h].is_allowed
            /\ Decided(task[h]) /\ task[h].is_allowed => task[h].asked = 1
            /\ Decided(task[h]) /\ ~task[h].is_allowed =>
                  task[h].reply = "denied" /\ task[h].asked = 0

C4_AskIffAllowed == []C4_Inv /\ [][C4_Step]_vars

C4_Witness ==
    \E h1 \in Handlers, h2 \in Handlers :
        /\ C4_Subject(task[h1]) /\ task[h1].pc = "done"
        /\ task[h1].asked = 1 /\ task[h1].reply = "gpt_text"
        /\ C4_Subject(task[h2]) /\ task[h2].pc = "done"
        /\ task[h2].asked = 0 /\ task[h2].reply = "denied"

\* C5: a message with no sender identity is always denied: its reply is
\* the access-denied text, no completion call is made and it never reaches
\* the store.
C5_AnonymousDenied ==
    \A h \in Handlers :
        task[h].username = None /\ task[h].handler # "none" =>
            /\ Decided(task[h])
            /\ task[h].reply = "denied"
            /\ task[h].asked = 0

\* C6: a Help command of any sender with an identity (administrator,
\* allow-listed or not) is answered with the command descriptions, never
\* with the access-denied reply, and its handler changes neither the
\* in-memory set nor the durable record.
C6_Inv ==
    \A h \in Handlers :
        IsCommand(task[h], {"help"}) /\ task[h].username # None =>
            /\ task[h].pc \in {"auth_wait", "auth_held", "send", "done"}
            /\ Decided(task[h]) => task[h].reply = "help"
            /\ task[h].pc = "done" => task[h].replies = 1
            /\ task[h].asked = 0

C6_Step ==
    \A h \in Handlers :
        IsCommand(task[h], {"help"}) /\ ~Finished(task[h])
            /\ task'[h] # task[h] => users' = users /\ file' = file

C6_HelpAlwaysPermitted == []C6_Inv /\ [][C6_Step]_vars

C6_Witness ==
    \E h \in Handlers :
        /\ IsCommand(task[h], {"help"})
        /\ task[h].username = Some("bob")
        /\ ~task[h].is_allowed
        /\ task[h].pc = "done"
        /\ task[h].reply = "help"

\* C7: the handling of every inbound message sends exactly one reply: a
\* handler that has returned has called send_message once.
C7_ExactlyOneReply ==
    \A h \in Handlers :
        task[h].handler # "none" /\ task[h].pc = "done" => task[h].replies = 1

\* the in-memory set before the mutation of the handler that is saving
PriorUsers(t) ==
    IF t.cmd.kind = "adduser" THEN users \ {t.cmd.arg}
    ELSE users \cup {t.cmd.arg}

\* C8: when the durable write of an AddUser or RemoveUser fails, the
\* handler goes on to send an error reply, and the in-memory set and the
\* durable record are what they were before the command.
C8_WriteFailureContained ==
    [][\A h \in Handlers :
          task[h].pc = "saving" /\ task'[h].cause = "store_write" =>
              /\ task'[h].pc = "send"
              /\ task'[h].reply = "error"
              /\ users' = PriorUsers(task[h])
              /\ file' = file]_vars

\* C9: every failure of the completion call (transport failure, error
\* status, malformed body, body with no choices) ends in the fixed generic
\* error text being the reply of that message.
C9_CompletionFailureReplied ==
    \A h \in Handlers :
        task[h].cause = "completion" =>
            Decided(task[h]) /\ task[h].reply = "gpt_error"

\* C10: no handler holds the store lock while it waits on the completion
\* API or on the sending of its reply.
C10_NoLockAcrossNetwork ==
    \A h \in Handlers : task[h].pc \in {"ask", "send"} => lock # h

\* the lock is free or held by a handler that only reads the store
NoMutatorInside ==
    \/ lock = 0
    \/ /\ lock # 0
       /\ \/ task[lock].pc = "auth_held"
          \/ task[lock].cmd.kind = "listusers"

\* C11: whenever no add or remove is inside its critical section, the set
\* of the durable record (empty when absent or malformed) equals the
\* in-memory set.
C11_StoreConsistent == NoMutatorInside => Load(file) = users

Mutation == {"adduser", "removeuser"}

\* C12: persist before report.  Whenever a handler is about to send the
\* 'added' or 'removed' confirmation, the durable record is the in-memory
\* set and reflects the mutation, and the handler still holds the lock.
C12_PersistBeforeReport ==
    \A h \in Handlers :
        task[h].pc = "send" /\ Confirmed(task[h]) =>
            /\ file = OkFile(users)
            /\ task[h].reply = "added" => task[h].cmd.arg \in file.users
            /\ task[h].reply = "removed" => task[h].cmd.arg \notin file.users
            /\ lock = h

C12_Witness ==
    \E h \in Handlers :
        /\ task[h].pc = "send"
        /\ task[h].reply = "added"
        /\ task[h].cmd.arg \in file.users

\* the call of add_user or remove_user by handler h changes nothing
NoOp(t) == (t.cmd.kind = "adduser") = (t.cmd.arg \in users)

\* C13: an add of a present identity and a remove of an absent one return
\* false, change neither the set nor the record and call no save; an
\* effective one changes the set and calls save, and true is returned only
\* by a save that wrote the record; the record is written by nothing else.
C13_Step ==
    /\ \A h \in Handlers :
          task[h].pc = "locked" /\ task'[h].pc # "locked"
              /\ task[h].cmd.kind \in Mutation =>
              IF NoOp(task[h])
              THEN /\ users' = users
                   /\ file' = file
                   /\ task'[h].pc = "send"
                   /\ task'[h].reply =
                        IF task[h].cmd.kind = "adduser" THEN "already" ELSE "not_in"
              ELSE /\ task'[h].pc = "saving"
                   /\ users' = IF task[h].cmd.kind = "adduser"
                               THEN users \cup {task[h].cmd.arg}
                               ELSE users \ {task[h].cmd.arg}
                   /\ file' = file
    /\ \A h \in Handlers :
          Confirmed(task'[h]) /\ ~Confirmed(task[h]) =>
              task[h].pc = "saving" /\ file' = OkFile(users')
    /\ file' # file =>
          \E h \in Handlers : task[h].pc = "saving" /\ task'[h].pc # "saving"

C13_Inv ==
    \A h \in Handlers :
        task[h].pc = "send" /\ task[h].cmd.kind \in Mutation /\ lock = h =>
            (task[h].reply \in {"added", "already"}) = (task[h].cmd.arg \in users)

C13_NoOpWritesNothing == []C13_Inv /\ [][C13_Step]_vars

C13_Witness ==
    \E h1 \in Handlers, h2 \in Handlers :
        /\ task[h1].pc = "done" /\ task[h1].reply = "added"
        /\ task[h2].pc = "send" /\ task[h2].reply = "already"
        /\ file = OkFile(users)

\* C15: every inbound message is given to exactly one handler, none is
\* dropped; a text that is no known command goes to the free-text handler,
\* which asks the completion API with it when the sender is allowed.
C15_RoutingTotal ==
    \A h \in Handlers :
        /\ task[h].pc # "idle" => task[h].handler \in {"command", "free_text"}
        /\ task[h].handler = "free_text" /\ task[h].has_text
              /\ task[h].is_allowed /\ Decided(task[h]) => task[h].asked = 1

\* C19: when the send of the confirmation of a committed AddUser or
\* RemoveUser fails, the in-memory set and the durable record are left as
\* they are, equal and with the mutation, the handler returns the error and
\* the lock is released.
C19_Step ==
    \A h \in Handlers :
        task[h].pc = "send" /\ Confirmed(task[h]) /\ task'[h].cause = "send" =>
            /\ users' = users /\ file' = file
            /\ file = OkFile(users)
            /\ (task[h].reply = "added") = (task[h].cmd.arg \in users)
            /\ lock = h /\ lock' = 0
            /\ task'[h].pc = "done"

C19_SendFailureKeepsStore == [][C19_Step]_vars

C19_Witness ==
    \E h \in Handlers :
        /\ task[h].pc = "done" /\ task[h].cause = "send"
        /\ task[h].reply = "added" /\ task[h].cmd.arg \in users
        /\ file = OkFile(users)
        /\ lock = 0

\* the process has started and no handler has run yet
JustStarted == phase = "running" /\ \A h \in Handlers : task[h].pc = "idle"

\* C16: startup load (SpecStart).  With the record absent or malformed the
\* process starts with an empty allow-list; a well-formed record gives
\* exactly the identities it lists; with the bot token present, startup
\* aborts only when the record exists and cannot be opened.
C16_StartupLoad ==
    /\ JustStarted =>
          /\ file.state # "unreadable"
          /\ file.state \in {"absent", "malformed"} => users = {}
          /\ file.state = "ok" => users = file.users
    /\ phase = "aborted" /\ env.token => file.state = "unreadable"
    /\ phase # "boot" /\ file.state = "unreadable" => phase = "aborted"

C16_Witness ==
    /\ JustStarted
    /\ file.state = "malformed"
    /\ users = {}

\* C17: a missing credential is fatal at startup: no message is handled
\* while the bot token or the completion-API key is absent, and no Ask
\* fails at request time for want of the key.
C17_MissingCredentialFatal ==
    \A h \in Handlers :
        /\ task[h].pc # "idle" => env.token /\ env.api_key
        /\ task[h].cause # "config"

\* C14 as stated (SpecSym): for every store content and every x, once
\* add(x) and then remove(x) have returned, the in-memory set and the
\* content of the durable record are what they were before the add.
C14_Symmetry ==
    \A h \in Handlers :
        task[h].cmd.kind = "removeuser" /\ task[h].pc = "done" =>
            /\ users = task[h].before.users
            /\ Load(file) = Load(task[h].before.file)

\* C14 amended: for x not in the store before the add, remove(x) after
\* add(x) restores the in-memory set, and the durable record lists that
\* set once the write of the remove has completed.
C14_SymmetryOfAbsent ==
    \A h \in Handlers :
        task[h].cmd.kind = "removeuser"
            /\ task[h].cmd.arg \notin task[h].before.users =>
            /\ task[h].pc \in {"saving", "send", "done", "panicked"} =>
                  users = task[h].before.users
            /\ task[h].pc \in {"send", "done"} =>
                  /\ task[h].reply = "removed"
                  /\ file = OkFile(task[h].before.users)

C14_Witness ==
    \E h \in Handlers :
        /\ task[h].cmd.kind = "removeuser" /\ task[h].pc = "done"
        /\ task[h].reply = "removed"
        /\ task[h].cmd.arg \notin task[h].before.users
        /\ task[h].before.users # {}
        /\ users = task[h].before.users
        /\ file = OkFile(users)

\* task 2 has computed is_allowed for its message
Checked(t) == t.pc \notin {"idle", "auth_wait", "auth_held"}

\* C18 as stated (SpecFresh): a message of bob whose handling starts after
\* AddUser(bob) was confirmed, with no RemoveUser(bob) since, is allowed,
\* and one that starts after a confirmed RemoveUser(bob), with no
\* AddUser(bob) since, is denied.
C18_FreshAtStart ==
    Checked(task[2]) =>
        /\ task[2].since = "added" => task[2].is_allowed
        /\ task[2].since = "removed" => ~task[2].is_allowed

\* C18 amended: the decision is computed from the store at the check: a
\* message of bob whose authorization check is made after AddUser(bob) was
\* confirmed, with no RemoveUser(bob) carried out since, is allowed and
\* goes on to the completion call; one whose check is made after a
\* confirmed RemoveUser(bob), with no AddUser(bob) carried out since, is
\* denied.
C18_Step ==
    task[2].pc = "auth_held" /\ task'[2].pc # "auth_held" =>
        /\ Standing(task[1]) = "added" =>
              /\ task'[2].is_allowed
              /\ task'[2].pc = IF task[2].has_text THEN "ask" ELSE "done"
        /\ Standing(task[1]) = "removed" =>
              /\ ~task'[2].is_allowed
              /\ task'[2].pc = "send" /\ task'[2].reply = "denied"

C18_FreshAtCheck == [][C18_Step]_vars

C18_Witness ==
    /\ task[2].pc = "done"
    /\ task[2].since = "removed"
    /\ task[2].is_allowed /\ task[2].asked = 1
    /\ Standing(task[1]) = "added"

\* no handler waits for the lock while holding it, and none keeps it after
\* its handling has ended
C20_Inv ==
    \A h \in Handlers :
        /\ task[h].pc \in {"auth_wait", "lock_wait"} => lock # h
        /\ Finished(task[h]) => lock # h

\* C20 (SpecLive): a handler never requests the lock while holding it,
\* every exit path releases it, and under fair scheduling, with every send
\* and completion call returning, every handling eventually finishes.
C20_LockDiscipline ==
    /\ []C20_Inv
    /\ \A h \in 1..NumLive : ~Finished(task[h]) ~> Finished(task[h])

\* one handler has confirmed a mutation and returned, another has then
\* taken the lock for its own command
C20_Witness ==
    \E h, g \in Handlers :
        /\ h # g
        /\ task[h].pc = "done" /\ Confirmed(task[h])
        /\ task[g].pc = "locked" /\ lock = g

====
